---- MODULE Spec2Model ----
(***************************************************************************)
(* UIABot: the ticket store (bot/database.py), the intake conversation and *)
(* the escalation / assignment handlers (bot/handlers.py) and the guidance *)
(* generator wrapper (bot/ai.py).                                          *)
(*                                                                         *)
(* One action per handler.  Update handlers are processed one at a time    *)
(* (Application.builder()...build() keeps concurrent_updates off), so an   *)
(* update handler is enabled only while no other one is suspended; the job *)
(* queue callback may run whenever a handler is suspended.  The one        *)
(* suspension point that separates two store writes of the same handler is *)
(* the executor call of request_details, which is therefore split in two.  *)
(* Deliveries through bot.send_message (manager, engineer) may fail with   *)
(* an exception; replies to the chat the update came from are delivered.   *)
(*                                                                         *)
(* Spec has the reporter sessions, the job queue and the manager's         *)
(* well-formed assign commands; CommandSpec has every manager command with *)
(* every kind of caller and argument, on stores that Spec reaches.         *)
(***************************************************************************)
EXTENDS Integers, Sequences, FiniteSets, TLC

\* ------------------------------------------------------------- bounds
MaxCalls == 1
NumThreads == 3
MaxLoad == 3
MaxRows == 2

\* ------------------------------------------------------------- constants
NULL == "<NULL>"
Users == {"u1"}
Manager == "manager"
Roster == <<"A", "B", "C">>
Rosters == {<< >>, <<"A", "B">>}
EmployeeTables == {{}, {[code |-> "E1", full_name |-> "n", department |-> NULL]}}
TypedCodes == {"E1", "bad"}
TypedNames == {"A", "b", "Z"}
RosterSpellings == {"A", "b"}
Descriptions == {"d1"}
YES_RESPONSES == {"yes"}
NO_RESPONSES == {"no"}
Responses == {"yes", " YES ", "no", "junk"}
IssueTexts == {"network", " network ", "Network", "junk"}
ISSUE_BY_TITLE == {"network"}
GenEvents == {"ok", "auth", "rate", "api", "other"}
ThreadNames == <<"A", "B", "C", "D", "E">>
MaxAttempts == 3

Statuses == {"basic_guidance_provided", "awaiting_ai_guidance", "ai_guidance_provided",
             "ai_guidance_failed", "awaiting_manager", "escalated_to_engineer",
             "resolved_with_basic", "resolved_with_ai"}
RESOLVED == {"resolved_with_basic", "resolved_with_ai"}

VARIABLES calls, employee_codes, engineers, conv_state, user_data, ai_wait,
          jobs, sent, last, seen, thr, lock, sel_loads, sel_out, awaiting_report_range,
          config_fields

vars == <<calls, employee_codes, engineers, conv_state, user_data, ai_wait,
          jobs, sent, last, seen, thr, lock, sel_loads, sel_out, awaiting_report_range,
          config_fields>>

\* ------------------------------------------------------------- helpers
\* The attributes of the configuration object handed to build_application:
\* BotConfig as declared, and a configuration that also carries the
\* employee_codes attribute the handlers read.
BotConfig == {"telegram_token", "openai_api_key", "manager_chat_id",
              "engineers", "openai_model", "database_path"}
WithEmployeeCodes == BotConfig \cup {"employee_codes"}

lower(s) == CASE s = "A" -> "a" [] s = "B" -> "b" [] s = "C" -> "c"
             [] s = "YES" -> "yes" [] s = "Network" -> "network" [] OTHER -> s
strip(s) == CASE s = " YES " -> "YES" [] s = " network " -> "network" [] OTHER -> s

Msg(to, kind, c) == [to |-> to, kind |-> kind, call |-> c]

\* ------------------------------------------------------------- database.py
\* the insert taking the id of the newest row when there is one
create_call_reuse(db, uid, code) ==
    LET row == [telegram_user_id |-> uid, employee_code |-> code,
                status |-> "basic_guidance_provided", assigned_engineer |-> NULL,
                issue_description |-> NULL, ai_guidance |-> NULL, created_today |-> TRUE]
    IN IF db = << >> THEN <<row>> ELSE [db EXCEPT ![Len(db)] = row]

\* the insert leaving the staff code out
create_call_no_code(db, uid, code) ==
    Append(db, [telegram_user_id |-> uid, employee_code |-> NULL,
                status |-> "basic_guidance_provided", assigned_engineer |-> NULL,
                issue_description |-> NULL, ai_guidance |-> NULL, created_today |-> TRUE])

\* the insert with another first status
create_call_awaiting(db, uid, code) ==
    Append(db, [telegram_user_id |-> uid, employee_code |-> code,
                status |-> "awaiting_ai_guidance", assigned_engineer |-> NULL,
                issue_description |-> NULL, ai_guidance |-> NULL, created_today |-> TRUE])

\* created_today stands for DATE(created_at) = today: true from the insert until
\* the date changes
create_call(db, uid, code) ==
    Append(db, [telegram_user_id |-> uid, employee_code |-> code,
                status |-> "basic_guidance_provided", assigned_engineer |-> NULL,
                issue_description |-> NULL, ai_guidance |-> NULL, created_today |-> TRUE])

update_issue_description(db, id, d) ==
    [i \in DOMAIN db |-> IF i = id THEN [db[i] EXCEPT !.issue_description = d] ELSE db[i]]

update_ai_guidance(db, id, g) ==
    [i \in DOMAIN db |-> IF i = id
        THEN [db[i] EXCEPT !.ai_guidance = g, !.status = "ai_guidance_provided"]
        ELSE db[i]]

mark_status(db, id, s) ==
    [i \in DOMAIN db |-> IF i = id THEN [db[i] EXCEPT !.status = s] ELSE db[i]]

\* the write that leaves a ticket that already has an engineer as it is
assign_engineer_keep(db, id, name) ==
    [i \in DOMAIN db |-> IF i = id /\ db[i].assigned_engineer \in {NULL, ""}
        THEN [db[i] EXCEPT !.assigned_engineer = name, !.status = "escalated_to_engineer"]
        ELSE db[i]]

assign_engineer(db, id, name) ==
    [i \in DOMAIN db |-> IF i = id
        THEN [db[i] EXCEPT !.assigned_engineer = name, !.status = "escalated_to_engineer"]
        ELSE db[i]]

\* the conditional write without its condition
assign_engineer_unconditional(db, id, name) ==
    [db |-> assign_engineer(db, id, name), ok |-> id \in DOMAIN db]

assign_engineer_if_unassigned(db, id, name) ==
    LET rows == {i \in DOMAIN db : i = id /\ db[i].assigned_engineer \in {NULL, ""}}
    IN [db |-> [i \in DOMAIN db |-> IF i \in rows
                  THEN [db[i] EXCEPT !.assigned_engineer = name,
                                     !.status = "escalated_to_engineer"]
                  ELSE db[i]],
        ok |-> Cardinality(rows) > 0]

\* INSERT ... ON CONFLICT(code) DO UPDATE: the name is replaced, the department only
\* by a non-empty one; the result tells whether the code was new
db_add_employee(tbl, code, full_name, department) ==
    LET dep == IF department = "" THEN NULL ELSE department
        existing == {r \in tbl : r.code = code}
        kept == IF existing = {} THEN NULL ELSE (CHOOSE r \in existing : TRUE).department
    IN [tbl |-> (tbl \ existing) \cup
                {[code |-> code, full_name |-> full_name,
                  department |-> IF dep # NULL THEN dep ELSE kept]},
        created |-> existing = {}]

is_call_assigned(db, id) ==
    id \in DOMAIN db /\ db[id].assigned_engineer \notin {NULL, ""}

\* the count without the condition on the date
count_for_all_days(db, name) ==
    Cardinality({i \in DOMAIN db : db[i].assigned_engineer = name})

count_for_today(db, name) ==
    Cardinality({i \in DOMAIN db : db[i].assigned_engineer = name /\ db[i].created_today})

engineer_loads(db, names) == [n \in names |-> count_for_today(db, n)]

\* ------------------------------------------------------------- ai.py
\* generate_guidance turns every failure of the client into a returned text: the
\* stripped model output ("guide") or one of four fixed texts that start with a
\* warning sign ("warning")
generate_guidance(ev) ==
    CASE ev = "ok"   -> [raised |-> FALSE, text |-> "guide"]
      [] ev = "auth" -> [raised |-> FALSE, text |-> "warning"]
      [] ev = "rate" -> [raised |-> FALSE, text |-> "warning"]
      [] ev = "api"  -> [raised |-> FALSE, text |-> "warning"]
      [] OTHER       -> [raised |-> FALSE, text |-> "warning"]

\* ------------------------------------------------------------- handlers.py helpers
Names(engs) == {engs[i] : i \in DOMAIN engs}

\* the load line of the assignment summary: loads.get(engineer.name, 0) + 1
compose_assignment_summary(engineer, loads) ==
    (IF engineer \in DOMAIN loads THEN loads[engineer] ELSE 0) + 1

\* variant: the name is returned as it was typed
find_engineer_as_typed(engs, name) ==
    LET hits == {i \in DOMAIN engs : lower(engs[i]) = lower(name)}
    IN IF hits = {} THEN NULL ELSE name

find_engineer(engs, name) ==
    LET hits == {i \in DOMAIN engs : lower(engs[i]) = lower(name)}
    IN IF hits = {} THEN NULL
       ELSE engs[CHOOSE i \in hits : \A j \in hits : i <= j]

\* min(engineers, key=lambda eng: loads.get(eng.name, 0)): a left-to-right scan that
\* replaces the running best only by a strictly smaller key
RECURSIVE min_scan(_, _, _, _)
min_scan(engs, loads, i, best) ==
    IF i > Len(engs) THEN best
    ELSE min_scan(engs, loads, i + 1,
                  IF loads[engs[i]] < loads[engs[best]] THEN i ELSE best)

\* the selection that keeps the last of the engineers with the smallest key
select_engineer_last(engs, loads) ==
    engs[CHOOSE k \in DOMAIN engs :
            /\ \A j \in DOMAIN engs : loads[engs[k]] <= loads[engs[j]]
            /\ \A j \in DOMAIN engs : loads[engs[j]] = loads[engs[k]] => j <= k]

select_engineer(engs, loads) == engs[min_scan(engs, loads, 2, 1)]

\* _escalate arming the job whatever the roster is
escalate_arm_always(db, jq, engs, c, mgrDown) ==
    [db |-> mark_status(db, c, "awaiting_manager"),
     jobs |-> IF mgrDown THEN jq ELSE [jq EXCEPT ![c] = @ + 1],
     sent |-> IF mgrDown THEN {}
              ELSE {Msg(Manager, IF engs = << >> THEN "no_roster" ELSE "escalation", c)},
     raised |-> mgrDown]

\* variant: the job is armed and the status left as it was
escalate_keep_status(db, jq, engs, c, mgrDown) ==
    IF engs = << >>
    THEN [db |-> mark_status(db, c, "awaiting_manager"), jobs |-> jq,
          sent |-> IF mgrDown THEN {} ELSE {Msg(Manager, "no_roster", c)},
          raised |-> mgrDown]
    ELSE IF mgrDown
    THEN [db |-> db, jobs |-> jq, sent |-> {}, raised |-> TRUE]
    ELSE [db |-> db,
          jobs |-> [jq EXCEPT ![c] = @ + 1],
          sent |-> {Msg(Manager, "escalation", c)}, raised |-> FALSE]

escalate(db, jq, engs, c, mgrDown) ==
    IF engs = << >>
    THEN [db |-> mark_status(db, c, "awaiting_manager"), jobs |-> jq,
          sent |-> IF mgrDown THEN {} ELSE {Msg(Manager, "no_roster", c)},
          raised |-> mgrDown]
    ELSE IF mgrDown
    THEN [db |-> mark_status(db, c, "awaiting_manager"), jobs |-> jq,
          sent |-> {}, raised |-> TRUE]
    ELSE [db |-> mark_status(db, c, "awaiting_manager"),
          jobs |-> [jq EXCEPT ![c] = @ + 1],
          sent |-> {Msg(Manager, "escalation", c)}, raised |-> FALSE]

\* ------------------------------------------------------------- state
EmptyData == [call_id |-> 0, employee_code |-> NULL, employee_code_attempts |-> 0]
CallIds == 1..MaxCalls
Idle == \A u \in Users : ~ai_wait[u]
\* last: the handler that ran last, the ticket it was about, how it ended, for an
\* assignment the engineer written and the one the ticket held before, and for a
\* manager command the chat it came from, for a reporter's choice or answer the
\* text of the message, and for an assignment the load its summary reports (0
\* when the step composed no summary)
StepOn(op, c, out, eng, prev) ==
    [op |-> op, call |-> c, out |-> out, eng |-> eng, prev |-> prev, by |-> NULL,
     text |-> NULL, load |-> 0]
By(step, caller) == [step EXCEPT !.by = caller]
Typed(step, text) == [step EXCEPT !.text = text]
Loaded(step, load) == [step EXCEPT !.load = load]
Step(op, c, out) == StepOn(op, c, out, NULL, NULL)

Threads == 1..NumThreads
IdleThreads == [t \in Threads |-> [pc |-> "off", ret |-> FALSE]]

Init ==
    /\ calls = << >>
    /\ employee_codes \in EmployeeTables
    /\ engineers \in Rosters
    /\ conv_state = [u \in Users |-> "END"]
    /\ user_data = [u \in Users |-> EmptyData]
    /\ ai_wait = [u \in Users |-> FALSE]
    /\ jobs = [c \in CallIds |-> 0]
    /\ sent = {}
    /\ last = Step("init", 0, NULL)
    /\ seen = [c \in CallIds |-> {}]
    /\ thr = IdleThreads
    /\ lock = 0
    /\ sel_loads = << >>
    /\ sel_out = NULL
    /\ awaiting_report_range = FALSE
    /\ config_fields \in {BotConfig, WithEmployeeCodes}

\* Variables a handler that only changes the conversation leaves alone
StoreUnchanged == UNCHANGED <<calls, jobs, seen>>
Frame ==
    UNCHANGED <<employee_codes, engineers, thr, lock, sel_loads, sel_out,
                awaiting_report_range,
                config_fields>>
\* seen[c]: which of the statuses in Tracked ticket c has held so far
Tracked == {"awaiting_manager"}
Track(c, S) == seen' = [seen EXCEPT ![c] = @ \cup (S \cap Tracked)]

\* ------------------------------------------------------------- intake handlers
\* The read of self._config.employee_codes (handlers.py 155 and 176) raises
\* AttributeError on a configuration object that lacks the attribute, as
\* BotConfig does (config.py 25-34); on an object that carries it the value
\* is modelled as an empty allow-list.
has_config_employee_codes == "employee_codes" \in config_fields
config_employee_codes == {}
has_employee_codes == employee_codes # {}
is_employee_code_allowed(code) == \E r \in employee_codes : r.code = code
get_employee(code) == CHOOSE r \in employee_codes : r.code = code

start(u) ==
    /\ Idle
    /\ \E working_hours \in BOOLEAN :
         /\ user_data' = [user_data EXCEPT ![u] = EmptyData]
         /\ conv_state' = [conv_state EXCEPT ![u] =
                IF ~working_hours THEN "END"
                ELSE IF ~has_config_employee_codes THEN conv_state[u]
                ELSE IF config_employee_codes # {} \/ has_employee_codes
                     THEN "ASK_EMPLOYEE_CODE" ELSE "ASK_NAME"]
         /\ last' = Step("start", 0,
                         IF ~working_hours THEN "closed"
                         ELSE IF ~has_config_employee_codes THEN "config_raised"
                         ELSE "started")
    /\ sent' = {}
    /\ StoreUnchanged /\ Frame /\ UNCHANGED ai_wait

\* receive_employee_code ending the session one invalid code later
receive_employee_code_late_cap(u) ==
    /\ Idle
    /\ conv_state[u] = "ASK_EMPLOYEE_CODE"
    /\ \E code \in TypedCodes :
        LET attempts == user_data[u].employee_code_attempts + 1 IN
        IF ~has_config_employee_codes
        THEN /\ user_data' = [user_data EXCEPT ![u].employee_code_attempts = attempts]
             /\ UNCHANGED conv_state
             /\ last' = Typed(Step("receive_employee_code", 0, "config_raised"), code)
        ELSE IF code \in config_employee_codes \/ is_employee_code_allowed(code)
        THEN /\ user_data' = [user_data EXCEPT ![u].employee_code = code,
                                               ![u].employee_code_attempts = 0]
             /\ conv_state' = [conv_state EXCEPT ![u] =
                    IF get_employee(code).full_name # ""
                    THEN IF get_employee(code).department \notin {NULL, ""}
                         THEN "CHOOSE_ISSUE" ELSE "ASK_DEPARTMENT"
                    ELSE "ASK_NAME"]
             /\ last' = Typed(Step("receive_employee_code", 0, "accepted"), code)
        ELSE /\ user_data' = [user_data EXCEPT ![u].employee_code_attempts = attempts]
             /\ conv_state' = [conv_state EXCEPT ![u] =
                    IF attempts > MaxAttempts THEN "END" ELSE "ASK_EMPLOYEE_CODE"]
             /\ last' = Typed(Step("receive_employee_code", 0,
                                   IF attempts > MaxAttempts THEN "locked_out" ELSE "retry"),
                              code)
    /\ sent' = {}
    /\ StoreUnchanged /\ Frame /\ UNCHANGED ai_wait

receive_employee_code(u) ==
    /\ Idle
    /\ conv_state[u] = "ASK_EMPLOYEE_CODE"
    /\ \E code \in TypedCodes :
        LET attempts == user_data[u].employee_code_attempts + 1 IN
        IF ~has_config_employee_codes
        THEN /\ user_data' = [user_data EXCEPT ![u].employee_code_attempts = attempts]
             /\ UNCHANGED conv_state
             /\ last' = Typed(Step("receive_employee_code", 0, "config_raised"), code)
        ELSE IF code \in config_employee_codes \/ is_employee_code_allowed(code)
        THEN /\ user_data' = [user_data EXCEPT ![u].employee_code = code,
                                               ![u].employee_code_attempts = 0]
             /\ conv_state' = [conv_state EXCEPT ![u] =
                    IF get_employee(code).full_name # ""
                    THEN IF get_employee(code).department \notin {NULL, ""}
                         THEN "CHOOSE_ISSUE" ELSE "ASK_DEPARTMENT"
                    ELSE "ASK_NAME"]
             /\ last' = Typed(Step("receive_employee_code", 0, "accepted"), code)
        ELSE /\ user_data' = [user_data EXCEPT ![u].employee_code_attempts = attempts]
             /\ conv_state' = [conv_state EXCEPT ![u] =
                    IF attempts >= MaxAttempts THEN "END" ELSE "ASK_EMPLOYEE_CODE"]
             /\ last' = Typed(Step("receive_employee_code", 0,
                                   IF attempts >= MaxAttempts THEN "locked_out" ELSE "retry"),
                              code)
    /\ sent' = {}
    /\ StoreUnchanged /\ Frame /\ UNCHANGED ai_wait

receive_name(u) ==
    /\ Idle
    /\ conv_state[u] = "ASK_NAME"
    /\ conv_state' = [conv_state EXCEPT ![u] = "ASK_DEPARTMENT"]
    /\ last' = Step("receive_name", 0, "ok")
    /\ sent' = {}
    /\ StoreUnchanged /\ Frame /\ UNCHANGED <<ai_wait, user_data>>

receive_department(u) ==
    /\ Idle
    /\ conv_state[u] = "ASK_DEPARTMENT"
    /\ conv_state' = [conv_state EXCEPT ![u] = "CHOOSE_ISSUE"]
    /\ last' = Step("receive_department", 0, "ok")
    /\ sent' = {}
    /\ StoreUnchanged /\ Frame /\ UNCHANGED <<ai_wait, user_data>>

\* choose_issue looking the category up whatever the case of the text is
choose_issue_any_case(u) ==
    /\ Idle
    /\ conv_state[u] = "CHOOSE_ISSUE"
    /\ \E text \in IssueTexts :
        IF lower(strip(text)) \notin ISSUE_BY_TITLE
        THEN /\ last' = Typed(Step("choose_issue", 0, "reprompt"), text)
             /\ StoreUnchanged /\ UNCHANGED <<conv_state, user_data>>
        ELSE /\ Len(calls) < MaxCalls
             /\ calls' = create_call(calls, u, user_data[u].employee_code)
             /\ user_data' = [user_data EXCEPT ![u].call_id = Len(calls) + 1]
             /\ conv_state' = [conv_state EXCEPT ![u] = "BASIC_FOLLOWUP"]
             /\ Track(Len(calls) + 1, {"basic_guidance_provided"})
             /\ last' = Typed(Step("choose_issue", Len(calls) + 1, "created"), text)
             /\ UNCHANGED jobs
    /\ sent' = {}
    /\ Frame /\ UNCHANGED ai_wait

choose_issue(u) ==
    /\ Idle
    /\ conv_state[u] = "CHOOSE_ISSUE"
    /\ \E text \in IssueTexts :
        IF strip(text) \notin ISSUE_BY_TITLE
        THEN /\ last' = Typed(Step("choose_issue", 0, "reprompt"), text)
             /\ StoreUnchanged /\ UNCHANGED <<conv_state, user_data>>
        ELSE /\ Len(calls) < MaxCalls
             /\ calls' = create_call(calls, u, user_data[u].employee_code)
             /\ user_data' = [user_data EXCEPT ![u].call_id = Len(calls) + 1]
             /\ conv_state' = [conv_state EXCEPT ![u] = "BASIC_FOLLOWUP"]
             /\ Track(Len(calls) + 1, {"basic_guidance_provided"})
             /\ last' = Typed(Step("choose_issue", Len(calls) + 1, "created"), text)
             /\ UNCHANGED jobs
    /\ sent' = {}
    /\ Frame /\ UNCHANGED ai_wait

\* variant: a no answer also writes a status to the ticket
handle_basic_followup_mark_on_no(u) ==
    /\ Idle
    /\ conv_state[u] = "BASIC_FOLLOWUP"
    /\ \E response \in Responses :
        LET c == user_data[u].call_id IN
        IF lower(strip(response)) \in YES_RESPONSES
        THEN /\ calls' = mark_status(calls, c, "resolved_with_basic")
             /\ Track(c, {"resolved_with_basic"})
             /\ conv_state' = [conv_state EXCEPT ![u] = "END"]
             /\ last' = Typed(Step("handle_basic_followup", c, "resolved"), response)
        ELSE IF lower(strip(response)) \notin NO_RESPONSES
        THEN /\ last' = Typed(Step("handle_basic_followup", c, "reprompt"), response)
             /\ UNCHANGED <<calls, seen, conv_state>>
        ELSE /\ calls' = mark_status(calls, c, "awaiting_ai_guidance")
             /\ Track(c, {"awaiting_ai_guidance"})
             /\ conv_state' = [conv_state EXCEPT ![u] = "REQUEST_DETAILS"]
             /\ last' = Typed(Step("handle_basic_followup", c, "details"), response)
    /\ sent' = {}
    /\ Frame /\ UNCHANGED <<ai_wait, user_data, jobs>>

handle_basic_followup(u) ==
    /\ Idle
    /\ conv_state[u] = "BASIC_FOLLOWUP"
    /\ \E response \in Responses :
        LET c == user_data[u].call_id IN
        IF lower(strip(response)) \in YES_RESPONSES
        THEN /\ calls' = mark_status(calls, c, "resolved_with_basic")
             /\ Track(c, {"resolved_with_basic"})
             /\ conv_state' = [conv_state EXCEPT ![u] = "END"]
             /\ last' = Typed(Step("handle_basic_followup", c, "resolved"), response)
        ELSE IF lower(strip(response)) \notin NO_RESPONSES
        THEN /\ last' = Typed(Step("handle_basic_followup", c, "reprompt"), response)
             /\ UNCHANGED <<calls, seen, conv_state>>
        ELSE /\ conv_state' = [conv_state EXCEPT ![u] = "REQUEST_DETAILS"]
             /\ last' = Typed(Step("handle_basic_followup", c, "details"), response)
             /\ UNCHANGED <<calls, seen>>
    /\ sent' = {}
    /\ Frame /\ UNCHANGED <<ai_wait, user_data, jobs>>

\* request_details up to the executor call (handlers.py 298-307)
request_details(u) ==
    /\ Idle
    /\ conv_state[u] = "REQUEST_DETAILS"
    /\ \E description \in Descriptions :
        LET c == user_data[u].call_id IN
        /\ calls' = mark_status(update_issue_description(calls, c, description),
                                c, "awaiting_ai_guidance")
        /\ Track(c, {"awaiting_ai_guidance"})
        /\ last' = Step("request_details", c, "asked")
    /\ ai_wait' = [ai_wait EXCEPT ![u] = TRUE]
    /\ sent' = {}
    /\ Frame /\ UNCHANGED <<conv_state, user_data, jobs>>

\* request_details from the return of the executor call (handlers.py 307-330):
\* the call returns what generate_guidance returned, or raises
request_details_resume(u) ==
    /\ ai_wait[u]
    /\ ai_wait' = [ai_wait EXCEPT ![u] = FALSE]
    /\ LET c == user_data[u].call_id
           failed == mark_status(calls, c, "ai_guidance_failed")
           Returned(ev, text) ==
               /\ calls' = update_ai_guidance(calls, c, text)
               /\ Track(c, {"ai_guidance_provided"})
               /\ conv_state' = [conv_state EXCEPT ![u] = "AI_FOLLOWUP"]
               /\ sent' = {}
               /\ last' = Step("request_details_resume", c,
                               IF ev = "ok" THEN "guidance" ELSE "generator_failed")
               /\ UNCHANGED jobs
           Raised ==
               \E mgrDown1 \in BOOLEAN :
                 IF mgrDown1
                 THEN /\ calls' = failed
                      /\ Track(c, {"ai_guidance_failed"})
                      /\ sent' = {}
                      /\ last' = Step("request_details_resume", c, "notify_raised")
                      /\ UNCHANGED <<conv_state, jobs>>
                 ELSE \E mgrDown2 \in BOOLEAN :
                      LET esc == escalate(failed, jobs, engineers, c, mgrDown2) IN
                      /\ calls' = esc.db
                      /\ jobs' = esc.jobs
                      /\ Track(c, {"ai_guidance_failed", "awaiting_manager"})
                      /\ sent' = {Msg(Manager, "ai_failure", c)} \cup esc.sent
                      /\ conv_state' = [conv_state EXCEPT ![u] =
                             IF esc.raised THEN @ ELSE "END"]
                      /\ last' = Step("request_details_resume", c,
                                      IF esc.raised THEN "escalate_raised" ELSE "escalated")
       IN \E executor_raises \in BOOLEAN :
            IF executor_raises THEN Raised
            ELSE \E ev \in GenEvents :
                   IF generate_guidance(ev).raised THEN Raised
                   ELSE Returned(ev, generate_guidance(ev).text)
    /\ Frame /\ UNCHANGED user_data

handle_ai_followup(u) ==
    /\ Idle
    /\ conv_state[u] = "AI_FOLLOWUP"
    /\ \E response \in Responses :
        LET c == user_data[u].call_id IN
        IF lower(strip(response)) \in YES_RESPONSES
        THEN /\ calls' = mark_status(calls, c, "resolved_with_ai")
             /\ Track(c, {"resolved_with_ai"})
             /\ conv_state' = [conv_state EXCEPT ![u] = "END"]
             /\ sent' = {}
             /\ last' = Typed(Step("handle_ai_followup", c, "resolved"), response)
             /\ UNCHANGED jobs
        ELSE IF lower(strip(response)) \notin NO_RESPONSES
        THEN /\ sent' = {}
             /\ last' = Typed(Step("handle_ai_followup", c, "reprompt"), response)
             /\ UNCHANGED <<calls, seen, conv_state, jobs>>
        ELSE \E mgrDown \in BOOLEAN :
             LET esc == escalate(calls, jobs, engineers, c, mgrDown) IN
             /\ calls' = esc.db
             /\ jobs' = esc.jobs
             /\ Track(c, {"awaiting_manager"})
             /\ sent' = esc.sent
             /\ conv_state' = [conv_state EXCEPT ![u] =
                    IF esc.raised THEN @ ELSE "END"]
             /\ last' = Typed(Step("handle_ai_followup", c,
                                   IF esc.raised THEN "escalate_raised" ELSE "escalated"),
                              response)
    /\ Frame /\ UNCHANGED <<ai_wait, user_data>>

\* cancel that also takes every pending job off the queue
cancel_remove_jobs(u) ==
    /\ Idle
    /\ conv_state[u] # "END"
    /\ conv_state' = [conv_state EXCEPT ![u] = "END"]
    /\ last' = Step("cancel", 0, "ok")
    /\ sent' = {}
    /\ jobs' = [c \in CallIds |-> 0]
    /\ UNCHANGED <<calls, seen>>
    /\ Frame /\ UNCHANGED <<ai_wait, user_data>>

cancel(u) ==
    /\ Idle
    /\ conv_state[u] # "END"
    /\ conv_state' = [conv_state EXCEPT ![u] = "END"]
    /\ last' = Step("cancel", 0, "ok")
    /\ sent' = {}
    /\ StoreUnchanged /\ Frame /\ UNCHANGED <<ai_wait, user_data>>

\* ------------------------------------------------------------- assignment
Callers == {Manager, "u1"}
ArgShapes == {"short", "not_int", "ok"}

Rejected(caller, c, out, eng) ==
    /\ last' = By(StepOn("assign_call", c, out, eng, NULL), caller)
    /\ sent' = {}
    /\ UNCHANGED <<calls, jobs, seen>>

\* assign_call without the removal of the ticket's jobs (handlers.py 733-736)
assign_call_keep_jobs(caller, shape, typed, call_id, engDown) ==
    /\ Idle
    /\ LET engineer == find_engineer(engineers, typed) IN
        IF caller # Manager THEN Rejected(caller, 0, "denied", NULL)
        ELSE IF shape # "ok" THEN Rejected(caller, 0, "rejected", NULL)
        ELSE IF engineer = NULL THEN Rejected(caller, 0, "unknown_engineer", NULL)
        ELSE IF call_id \notin DOMAIN calls THEN Rejected(caller, 0, "unknown_call", NULL)
        ELSE IF calls[call_id].status \in RESOLVED
             THEN Rejected(caller, call_id, "closed", engineer)
        ELSE /\ UNCHANGED jobs
             /\ calls' = assign_engineer(calls, call_id, engineer)
             /\ Track(call_id, {"escalated_to_engineer"})
             /\ sent' = {Msg(Manager, "assign_reply", call_id)} \cup
                        (IF engDown THEN {} ELSE {Msg(engineer, "engineer_notice", call_id)})
             /\ last' = By(StepOn("assign_call", call_id,
                                  IF jobs[call_id] > 0 THEN "assigned_job_removed"
                                  ELSE "assigned",
                                  engineer, calls[call_id].assigned_engineer), caller)
    /\ Frame /\ UNCHANGED <<ai_wait, user_data, conv_state>>

\* assign_call removing the jobs of the ticket id it was given before it looks up the
\* engineer and the ticket
assign_call_remove_first(caller, shape, typed, call_id, engDown) ==
    /\ Idle
    /\ LET engineer == find_engineer(engineers, typed)
           removed == [c \in CallIds |-> IF c = call_id THEN 0 ELSE jobs[c]]
           RejectedAfterRemoval(out) ==
               /\ last' = By(StepOn("assign_call", 0, out, NULL, NULL), caller)
               /\ sent' = {}
               /\ jobs' = removed
               /\ UNCHANGED <<calls, seen>>
       IN
        IF caller # Manager THEN Rejected(caller, 0, "denied", NULL)
        ELSE IF shape # "ok" THEN Rejected(caller, 0, "rejected", NULL)
        ELSE IF engineer = NULL THEN RejectedAfterRemoval("unknown_engineer")
        ELSE IF call_id \notin DOMAIN calls THEN RejectedAfterRemoval("unknown_call")
        ELSE IF calls[call_id].status \in RESOLVED
             THEN Rejected(caller, call_id, "closed", engineer)
        ELSE /\ jobs' = removed
             /\ calls' = assign_engineer(calls, call_id, engineer)
             /\ Track(call_id, {"escalated_to_engineer"})
             /\ sent' = {Msg(Manager, "assign_reply", call_id)} \cup
                        (IF engDown THEN {} ELSE {Msg(engineer, "engineer_notice", call_id)})
             /\ last' = By(StepOn("assign_call", call_id,
                                  IF jobs[call_id] > 0 THEN "assigned_job_removed"
                                  ELSE "assigned",
                                  engineer, calls[call_id].assigned_engineer), caller)
    /\ Frame /\ UNCHANGED <<ai_wait, user_data, conv_state>>

\* assign_call without the check of the ticket's status (handlers.py 727-731)
assign_call_closed_too(caller, shape, typed, call_id, engDown) ==
    /\ Idle
    /\ LET engineer == find_engineer(engineers, typed) IN
        IF caller # Manager THEN Rejected(caller, 0, "denied", NULL)
        ELSE IF shape # "ok" THEN Rejected(caller, 0, "rejected", NULL)
        ELSE IF engineer = NULL THEN Rejected(caller, 0, "unknown_engineer", NULL)
        ELSE IF call_id \notin DOMAIN calls THEN Rejected(caller, 0, "unknown_call", NULL)
        ELSE /\ jobs' = [jobs EXCEPT ![call_id] = 0]
             /\ calls' = assign_engineer(calls, call_id, engineer)
             /\ Track(call_id, {"escalated_to_engineer"})
             /\ sent' = {Msg(Manager, "assign_reply", call_id)} \cup
                        (IF engDown THEN {} ELSE {Msg(engineer, "engineer_notice", call_id)})
             /\ last' = By(StepOn("assign_call", call_id,
                                  IF jobs[call_id] > 0 THEN "assigned_job_removed"
                                  ELSE "assigned",
                                  engineer, calls[call_id].assigned_engineer), caller)
    /\ Frame /\ UNCHANGED <<ai_wait, user_data, conv_state>>

\* caller: the chat the command comes from; shape: how context.args parses; typed: the
\* engineer name typed; call_id: the ticket id typed; engDown: the engineer's chat
\* cannot be reached
assign_call(caller, shape, typed, call_id, engDown) ==
    /\ Idle
    /\ LET engineer == find_engineer(engineers, typed)
           loads == engineer_loads(calls, Names(engineers)) IN
        IF caller # Manager THEN Rejected(caller, 0, "denied", NULL)
        ELSE IF shape # "ok" THEN Rejected(caller, 0, "rejected", NULL)
        ELSE IF engineer = NULL THEN Rejected(caller, 0, "unknown_engineer", NULL)
        ELSE IF call_id \notin DOMAIN calls THEN Rejected(caller, 0, "unknown_call", NULL)
        ELSE IF calls[call_id].status \in RESOLVED
             THEN Rejected(caller, call_id, "closed", engineer)
        ELSE /\ jobs' = [jobs EXCEPT ![call_id] = 0]
             /\ calls' = assign_engineer(calls, call_id, engineer)
             /\ Track(call_id, {"escalated_to_engineer"})
             /\ sent' = {Msg(Manager, "assign_reply", call_id)} \cup
                        (IF engDown THEN {} ELSE {Msg(engineer, "engineer_notice", call_id)})
             /\ last' = Loaded(By(StepOn("assign_call", call_id,
                                         IF jobs[call_id] > 0 THEN "assigned_job_removed"
                                         ELSE "assigned",
                                         engineer, calls[call_id].assigned_engineer),
                                  caller),
                               compose_assignment_summary(engineer, loads))
    /\ Frame /\ UNCHANGED <<ai_wait, user_data, conv_state>>

Fired(c, out) ==
    /\ last' = Step("auto_assign_job", c, out)
    /\ sent' = {}
    /\ UNCHANGED <<calls, seen>>

\* the job notifying the engineer before the manager, with no guard around the send
Assigned_engineer_first(c, db, selected, loads) ==
    /\ calls' = db
    /\ Track(c, {"escalated_to_engineer"})
    /\ \E mgrDown \in BOOLEAN, engDown \in BOOLEAN :
         /\ sent' = IF engDown THEN {}
                    ELSE {Msg(selected, "engineer_notice", c)} \cup
                         (IF mgrDown THEN {} ELSE {Msg(Manager, "auto_assigned", c)})
         /\ last' = Loaded(StepOn("auto_assign_job", c,
                                  IF mgrDown /\ ~engDown THEN "assigned_raised"
                                  ELSE "assigned",
                                  selected, calls[c].assigned_engineer),
                           compose_assignment_summary(selected, loads))

Assigned(c, db, selected, loads) ==
    /\ calls' = db
    /\ Track(c, {"escalated_to_engineer"})
    /\ \E mgrDown \in BOOLEAN, engDown \in BOOLEAN :
         /\ sent' = IF mgrDown THEN {}
                    ELSE {Msg(Manager, "auto_assigned", c)} \cup
                         (IF engDown THEN {} ELSE {Msg(selected, "engineer_notice", c)})
         /\ last' = Loaded(StepOn("auto_assign_job", c,
                                  IF mgrDown THEN "assigned_raised" ELSE "assigned",
                                  selected, calls[c].assigned_engineer),
                           compose_assignment_summary(selected, loads))

\* the job without its two guards: it assigns whatever the ticket holds
auto_assign_job_overwrite(c) ==
    /\ jobs[c] > 0
    /\ jobs' = [jobs EXCEPT ![c] = @ - 1]
    /\ LET loads == engineer_loads(calls, Names(engineers))
           selected == select_engineer(engineers, loads)
           r == assign_engineer_unconditional(calls, c, selected)
       IN
        IF engineers = << >> THEN Fired(c, "no_roster")
        ELSE Assigned(c, r.db, selected, loads)
    /\ Frame /\ UNCHANGED <<ai_wait, user_data, conv_state>>

auto_assign_job(c) ==
    /\ jobs[c] > 0
    /\ jobs' = [jobs EXCEPT ![c] = @ - 1]
    /\ LET loads == engineer_loads(calls, Names(engineers))
           selected == select_engineer(engineers, loads)
           r == assign_engineer_if_unassigned(calls, c, selected)
       IN
        IF engineers = << >> THEN Fired(c, "no_roster")
        ELSE IF is_call_assigned(calls, c) THEN Fired(c, "already_assigned")
        ELSE IF ~r.ok THEN Fired(c, "not_assigned")
        ELSE Assigned(c, r.db, selected, loads)
    /\ Frame /\ UNCHANGED <<ai_wait, user_data, conv_state>>

\* the date of datetime.now(timezone.utc) moves on: no ticket is of today any more
next_day ==
    /\ \E i \in DOMAIN calls : calls[i].created_today
    /\ calls' = [i \in DOMAIN calls |-> [calls[i] EXCEPT !.created_today = FALSE]]
    /\ last' = Step("next_day", 0, NULL)
    /\ sent' = {}
    /\ UNCHANGED <<employee_codes, engineers, conv_state, user_data, ai_wait,
                   jobs, seen, thr, lock, sel_loads, sel_out, awaiting_report_range,
                   config_fields>>

\* a session is started only while a ticket can still be created
Next ==
    \/ \E u \in Users : Len(calls) < MaxCalls /\ start(u)
    \/ \E u \in Users : receive_employee_code(u)
    \/ \E u \in Users : receive_name(u)
    \/ \E u \in Users : receive_department(u)
    \/ \E u \in Users : choose_issue(u)
    \/ \E u \in Users : handle_basic_followup(u)
    \/ \E u \in Users : request_details(u)
    \/ \E u \in Users : request_details_resume(u)
    \/ \E u \in Users : handle_ai_followup(u)
    \/ \E u \in Users : cancel(u)
    \/ \E typed \in RosterSpellings, call_id \in CallIds, engDown \in BOOLEAN :
          assign_call(Manager, "ok", typed, call_id, engDown)
    \/ \E c \in CallIds : auto_assign_job(c)
    \/ next_day

Spec == Init /\ [][Next]_vars

\* ------------------------------------------------------------- fairness
\* The job queue runs every job it holds (run_once fires after the escalation
\* window) and the executor call of request_details returns or raises.
FairSpec ==
    /\ Spec
    /\ \A c \in CallIds : WF_vars(auto_assign_job(c))
    /\ \A u \in Users : WF_vars(request_details_resume(u))

\* ------------------------------------------------------------- concurrent conditional writes
\* NumThreads threads call assign_engineer_if_unassigned(RaceCall, name) at once,
\* thread t with the name ThreadNames[t].  _get_connection (database.py 139-147)
\* takes the store's lock, yields the connection, closes it and releases the lock.
RaceCall == 1
RaceTicket(st) ==
    [telegram_user_id |-> "u1", employee_code |-> NULL, status |-> st,
     assigned_engineer |-> NULL, issue_description |-> NULL, ai_guidance |-> NULL,
     created_today |-> TRUE]
RaceStores ==
    {<<RaceTicket(st)>> : st \in Statuses \ {"escalated_to_engineer"}}
    \cup {<<RaceTicket(st), [RaceTicket("escalated_to_engineer") EXCEPT
                                !.assigned_engineer = "E"]>> :
            st \in Statuses \ {"escalated_to_engineer"}}

RaceInit ==
    /\ calls \in RaceStores
    /\ employee_codes = {}
    /\ engineers = << >>
    /\ conv_state = [u \in Users |-> "END"]
    /\ user_data = [u \in Users |-> EmptyData]
    /\ ai_wait = [u \in Users |-> FALSE]
    /\ jobs = [c \in CallIds |-> 0]
    /\ sent = {}
    /\ last = Step("race", RaceCall, NULL)
    /\ seen = [c \in CallIds |-> {}]
    /\ thr = [t \in Threads |-> [pc |-> "call", ret |-> FALSE]]
    /\ lock = 0
    /\ sel_loads = << >>
    /\ sel_out = NULL
    /\ awaiting_report_range = FALSE
    /\ config_fields = WithEmployeeCodes

RaceFrame ==
    UNCHANGED <<employee_codes, engineers, conv_state, user_data, ai_wait, jobs, sent,
                last, seen, sel_loads, sel_out, awaiting_report_range,
                config_fields>>

\* with self._lock: (database.py 141)
race_acquire(t) ==
    /\ thr[t].pc = "call"
    /\ lock = 0
    /\ lock' = t
    /\ thr' = [thr EXCEPT ![t].pc = "locked"]
    /\ UNCHANGED calls
    /\ RaceFrame

\* the UPDATE of assign_engineer_if_unassigned and its commit (database.py 218-228)
race_update(t) ==
    /\ thr[t].pc = "locked"
    /\ lock = t
    /\ LET r == assign_engineer_if_unassigned(calls, RaceCall, ThreadNames[t]) IN
         /\ calls' = r.db
         /\ thr' = [thr EXCEPT ![t].pc = "committed", ![t].ret = r.ok]
    /\ UNCHANGED lock
    /\ RaceFrame

\* conn.close(), the lock is released, the call returns (database.py 146, 229)
race_release(t) ==
    /\ thr[t].pc = "committed"
    /\ lock = t
    /\ lock' = 0
    /\ thr' = [thr EXCEPT ![t].pc = "done"]
    /\ UNCHANGED calls
    /\ RaceFrame

RaceNext ==
    \/ \E t \in Threads : race_acquire(t)
    \/ \E t \in Threads : race_update(t)
    \/ \E t \in Threads : race_release(t)

RaceSpec == RaceInit /\ [][RaceNext]_vars

\* ------------------------------------------------------------- selection
\* select_engineer on every roster that is a prefix of Roster and every loads
\* dictionary with values up to MaxLoad
SelRosters == {SubSeq(Roster, 1, n) : n \in 1..Len(Roster)}

SelInit ==
    /\ calls = << >>
    /\ employee_codes = {}
    /\ engineers \in SelRosters
    /\ sel_loads \in [Names(engineers) -> 0..MaxLoad]
    /\ sel_out = NULL
    /\ awaiting_report_range = FALSE
    /\ config_fields = WithEmployeeCodes
    /\ conv_state = [u \in Users |-> "END"]
    /\ user_data = [u \in Users |-> EmptyData]
    /\ ai_wait = [u \in Users |-> FALSE]
    /\ jobs = [c \in CallIds |-> 0]
    /\ sent = {}
    /\ last = Step("select_input", 0, NULL)
    /\ seen = [c \in CallIds |-> {}]
    /\ thr = IdleThreads
    /\ lock = 0

select ==
    /\ last.op = "select_input"
    /\ sel_out' = select_engineer(engineers, sel_loads)
    /\ last' = Step("select", 0, NULL)
    /\ UNCHANGED <<calls, employee_codes, engineers, conv_state, user_data, ai_wait,
                   jobs, sent, seen, thr, lock, sel_loads, awaiting_report_range,
                   config_fields>>

SelNext == select

SelSpec == SelInit /\ [][SelNext]_vars

\* ------------------------------------------------------------- manager commands
AddCodes == {"E1", "E2"}
AddDetails == {[full_name |-> "n", department |-> ""],
               [full_name |-> "m", department |-> "IT"],
               [full_name |-> "", department |-> "IT"]}

CommandFrame ==
    UNCHANGED <<engineers, conv_state, user_data, ai_wait, thr, lock, sel_loads, sel_out,
                awaiting_report_range,
                config_fields>>

\* add_employee without the check of the caller (handlers.py 652-655)
add_employee_unchecked(caller, shape, code, details) ==
    /\ Idle
    /\ IF shape = "short" \/ details.full_name = ""
       THEN /\ last' = By(Step("add_employee", 0, "rejected"), caller)
            /\ UNCHANGED employee_codes
       ELSE LET r == db_add_employee(employee_codes, code, details.full_name,
                                     details.department) IN
            /\ employee_codes' = r.tbl
            /\ last' = By(Step("add_employee", 0,
                               IF r.created THEN "created" ELSE "updated"), caller)
    /\ sent' = {}
    /\ UNCHANGED <<calls, jobs, seen>>
    /\ CommandFrame

add_employee(caller, shape, code, details) ==
    /\ Idle
    /\ IF caller # Manager
       THEN /\ last' = By(Step("add_employee", 0, "denied"), caller)
            /\ UNCHANGED employee_codes
       ELSE IF shape = "short" \/ details.full_name = ""
       THEN /\ last' = By(Step("add_employee", 0, "rejected"), caller)
            /\ UNCHANGED employee_codes
       ELSE LET r == db_add_employee(employee_codes, code, details.full_name,
                                     details.department) IN
            /\ employee_codes' = r.tbl
            /\ last' = By(Step("add_employee", 0,
                               IF r.created THEN "created" ELSE "updated"), caller)
    /\ sent' = {}
    /\ UNCHANGED <<calls, jobs, seen>>
    /\ CommandFrame

\* the manager gets the keyboard of report ranges
report(caller) ==
    /\ Idle
    /\ last' = By(Step("report", 0, IF caller # Manager THEN "denied" ELSE "prompted"),
                  caller)
    /\ sent' = {}
    /\ UNCHANGED <<calls, jobs, seen, employee_codes>>
    /\ CommandFrame

\* Tickets as Spec leaves them, each with the number of its pending jobs: new;
\* escalated with its job pending; escalated with no job (the job ran, or was never
\* armed); assigned; assigned by the manager before the escalation armed the job;
\* resolved.
CommandTicket(st, eng, d, g) ==
    [telegram_user_id |-> "u1", employee_code |-> NULL, status |-> st,
     assigned_engineer |-> eng, issue_description |-> d, ai_guidance |-> g,
     created_today |-> TRUE]
CommandTickets ==
    {[row |-> CommandTicket("basic_guidance_provided", NULL, NULL, NULL), job |-> 0],
     [row |-> CommandTicket("awaiting_manager", NULL, "d1", "guide"), job |-> 1],
     [row |-> CommandTicket("awaiting_manager", NULL, "d1", "guide"), job |-> 0],
     [row |-> CommandTicket("escalated_to_engineer", "A", "d1", "guide"), job |-> 0],
     [row |-> CommandTicket("awaiting_manager", "B", "d1", "guide"), job |-> 1],
     [row |-> CommandTicket("resolved_with_ai", NULL, "d1", "guide"), job |-> 0]}

CommandInit ==
    /\ \E n \in 0..MaxCalls : \E f \in [1..n -> CommandTickets] :
         /\ calls = [i \in 1..n |-> f[i].row]
         /\ jobs = [c \in CallIds |-> IF c <= n THEN f[c].job ELSE 0]
    /\ employee_codes \in EmployeeTables
    /\ engineers = <<"A", "B">>
    /\ conv_state = [u \in Users |-> "END"]
    /\ user_data = [u \in Users |-> EmptyData]
    /\ ai_wait = [u \in Users |-> FALSE]
    /\ sent = {}
    /\ last = Step("commands", 0, NULL)
    /\ seen = [c \in CallIds |-> {}]
    /\ thr = IdleThreads
    /\ lock = 0
    /\ sel_loads = << >>
    /\ sel_out = NULL
    /\ awaiting_report_range = FALSE
    /\ config_fields = WithEmployeeCodes

CommandNext ==
    \/ \E caller \in Callers, shape \in ArgShapes, typed \in TypedNames,
          call_id \in 1..(MaxCalls + 1), engDown \in BOOLEAN :
          assign_call(caller, shape, typed, call_id, engDown)
    \/ \E caller \in Callers, shape \in ArgShapes, code \in AddCodes,
          details \in AddDetails :
          add_employee(caller, shape, code, details)
    \/ \E caller \in Callers : report(caller)
    \/ \E c \in CallIds : auto_assign_job(c)

CommandSpec == CommandInit /\ [][CommandNext]_vars

\* ------------------------------------------------------------- sessions beside stored tickets
\* A reporter's sessions, started at any time, on the stores CommandInit draws:
\* tickets of earlier sessions with their pending jobs, which may fire meanwhile.
SessionInit ==
    /\ \E n \in 0..MaxCalls : \E f \in [1..n -> CommandTickets] :
         /\ calls = [i \in 1..n |-> f[i].row]
         /\ jobs = [c \in CallIds |-> IF c <= n THEN f[c].job ELSE 0]
    /\ employee_codes \in EmployeeTables
    /\ engineers = <<"A", "B">>
    /\ conv_state = [u \in Users |-> "END"]
    /\ user_data = [u \in Users |-> EmptyData]
    /\ ai_wait = [u \in Users |-> FALSE]
    /\ sent = {}
    /\ last = Step("sessions", 0, NULL)
    /\ seen = [c \in CallIds |-> {}]
    /\ thr = IdleThreads
    /\ lock = 0
    /\ sel_loads = << >>
    /\ sel_out = NULL
    /\ awaiting_report_range = FALSE
    /\ config_fields = WithEmployeeCodes

SessionNext ==
    \/ \E u \in Users : start(u)
    \/ \E u \in Users : receive_employee_code(u)
    \/ \E u \in Users : receive_name(u)
    \/ \E u \in Users : receive_department(u)
    \/ \E u \in Users : choose_issue(u)
    \/ \E u \in Users : handle_basic_followup(u)
    \/ \E u \in Users : request_details(u)
    \/ \E u \in Users : request_details_resume(u)
    \/ \E u \in Users : handle_ai_followup(u)
    \/ \E u \in Users : cancel(u)
    \/ \E c \in CallIds : auto_assign_job(c)

SessionSpec == SessionInit /\ [][SessionNext]_vars

\* ------------------------------------------------------------- dispatch of updates
\* An update is a callback query of the report keyboard, a command, or a text that is
\* no command.  All handlers are in one group: the first one in the order of their
\* registration (handlers.py 793-803) whose check accepts the update handles it, and
\* no other handler sees it.  filters.TEXT accepts every message that has a text,
\* commands included.
Commands == {"/report", "/add_employee", "/assign_call"}
RangeTexts == {"2024-05-01 - 2024-05-31", "2024-05-31 - 2024-05-01",
               "2024-05-01 - soon", "hello"}
Updates ==
    [from : Callers, kind : {"callback"}, data : {"report:today", "report:custom"}]
    \cup [from : Callers, kind : {"command"}, data : Commands]
    \cup [from : Callers, kind : {"text"}, data : RangeTexts]

HandlerOrder ==
    <<"handle_report_callback", "receive_report_range", "conversation",
      "/report", "/add_employee", "/assign_call">>

check_update(h, upd) ==
    CASE h = "handle_report_callback" -> upd.kind = "callback"
      [] h = "receive_report_range" ->
            upd.kind \in {"command", "text"} /\ upd.from = Manager
      [] h = "conversation" ->
            /\ upd.from \in Users
            /\ \/ upd.kind = "command" /\ upd.data = "/start"
               \/ /\ conv_state[upd.from] # "END"
                  /\ \/ upd.kind = "text"
                     \/ upd.kind = "command" /\ upd.data = "/cancel"
      [] OTHER -> upd.kind = "command" /\ upd.data = h

dispatch(upd) ==
    LET accepting == {i \in DOMAIN HandlerOrder : check_update(HandlerOrder[i], upd)}
    IN IF accepting = {} THEN "none"
       ELSE HandlerOrder[CHOOSE i \in accepting : \A j \in accepting : i <= j]

\* cleaned.split(" - ") with every segment stripped (no text drawn holds an en
\* dash, so the replace before it leaves the text as it is)
split_range(text) ==
    CASE text = "2024-05-01 - 2024-05-31" -> <<"2024-05-01", "2024-05-31">>
      [] text = "2024-05-31 - 2024-05-01" -> <<"2024-05-31", "2024-05-01">>
      [] text = "2024-05-01 - soon" -> <<"2024-05-01", "soon">>
      [] OTHER -> <<text>>

\* datetime.strptime(part, "%Y-%m-%d") as the day of May 2024, 0 for ValueError
strptime(part) ==
    CASE part = "2024-05-01" -> 1
      [] part = "2024-05-31" -> 31
      [] OTHER -> 0

Raises == [ok |-> FALSE, start |-> 0, end |-> 0]

\* variant: the two dates are not compared
parse_date_range_unordered(text) ==
    LET parts == split_range(text) IN
    IF Len(parts) # 2 THEN Raises
    ELSE IF strptime(parts[1]) = 0 \/ strptime(parts[2]) = 0 THEN Raises
    ELSE [ok |-> TRUE, start |-> strptime(parts[1]), end |-> strptime(parts[2])]

\* _parse_date_range: two dates around " - ", the first not after the second
parse_date_range(text) ==
    LET parts == split_range(text) IN
    IF Len(parts) # 2 THEN Raises
    ELSE IF strptime(parts[1]) = 0 \/ strptime(parts[2]) = 0 THEN Raises
    ELSE IF strptime(parts[1]) > strptime(parts[2]) THEN Raises
    ELSE [ok |-> TRUE, start |-> strptime(parts[1]), end |-> strptime(parts[2])]

\* the report _send_summary sends for a range: _format_summary names its dates
SummaryMsg(to, first_day, last_day) ==
    [to |-> to, kind |-> "summary", call |-> 0, start |-> first_day, end |-> last_day]

DispatchFrame ==
    UNCHANGED <<calls, jobs, seen, employee_codes, engineers, conv_state, user_data,
                ai_wait, thr, lock, sel_loads, sel_out, config_fields>>

handle_report_callback(upd) ==
    /\ Idle
    /\ IF upd.from # Manager
       THEN /\ last' = By(Typed(Step("handle_report_callback", 0, "denied"), upd.data),
                          upd.from)
            /\ sent' = {}
            /\ UNCHANGED awaiting_report_range
       ELSE IF upd.data = "report:custom"
       THEN /\ awaiting_report_range' = TRUE
            /\ last' = By(Typed(Step("handle_report_callback", 0, "prompted"), upd.data),
                          upd.from)
            /\ sent' = {}
       ELSE /\ last' = By(Typed(Step("handle_report_callback", 0, "summary"), upd.data),
                          upd.from)
            /\ sent' = {Msg(upd.from, "summary", 0)}
            /\ UNCHANGED awaiting_report_range
    /\ DispatchFrame

receive_report_range(upd) ==
    /\ Idle
    /\ IF ~awaiting_report_range \/ upd.from # Manager
       THEN /\ last' = By(Typed(Step("receive_report_range", 0, "ignored"), upd.data),
                          upd.from)
            /\ sent' = {}
            /\ UNCHANGED awaiting_report_range
       ELSE IF ~parse_date_range(upd.data).ok
       THEN /\ last' = By(Typed(Step("receive_report_range", 0, "bad_range"), upd.data),
                          upd.from)
            /\ sent' = {}
            /\ UNCHANGED awaiting_report_range
       ELSE /\ awaiting_report_range' = FALSE
            /\ last' = By(Typed(Step("receive_report_range", 0, "summary"), upd.data),
                          upd.from)
            /\ sent' = {SummaryMsg(upd.from, parse_date_range(upd.data).start,
                                   parse_date_range(upd.data).end)}
    /\ DispatchFrame

\* an update no handler accepts is dropped
unhandled(upd) ==
    /\ Idle
    /\ last' = By(Typed(Step("none", 0, NULL), upd.data), upd.from)
    /\ sent' = {}
    /\ UNCHANGED awaiting_report_range
    /\ DispatchFrame

DispatchNext ==
    \/ \E upd \in Updates :
          dispatch(upd) = "handle_report_callback" /\ handle_report_callback(upd)
    \/ \E upd \in Updates :
          dispatch(upd) = "receive_report_range" /\ receive_report_range(upd)
    \/ \E upd \in Updates : dispatch(upd) = "/report" /\ report(upd.from)
    \/ \E upd \in Updates, shape \in ArgShapes, code \in AddCodes, details \in AddDetails :
          dispatch(upd) = "/add_employee" /\ add_employee(upd.from, shape, code, details)
    \/ \E upd \in Updates, shape \in ArgShapes, typed \in TypedNames,
          call_id \in 1..(MaxCalls + 1), engDown \in BOOLEAN :
          dispatch(upd) = "/assign_call"
          /\ assign_call(upd.from, shape, typed, call_id, engDown)
    \/ \E upd \in Updates : dispatch(upd) = "none" /\ unhandled(upd)

DispatchSpec == CommandInit /\ [][DispatchNext]_vars

\* ------------------------------------------------------------- the store alone
\* Any sequence of the writes of database.py on the calls table, from the empty
\* table; the table has no DELETE.  lastrowid: the id the insert returns.
lastrowid(db) == Len(db)

StoreFrame ==
    UNCHANGED <<employee_codes, engineers, conv_state, user_data, ai_wait, jobs, sent,
                seen, thr, lock, sel_loads, sel_out, awaiting_report_range,
                config_fields>>

StoreInit ==
    /\ calls = << >>
    /\ employee_codes = {}
    /\ engineers = <<"A", "B">>
    /\ conv_state = [u \in Users |-> "END"]
    /\ user_data = [u \in Users |-> EmptyData]
    /\ ai_wait = [u \in Users |-> FALSE]
    /\ jobs = [c \in CallIds |-> 0]
    /\ sent = {}
    /\ last = Step("store", 0, NULL)
    /\ seen = [c \in CallIds |-> {}]
    /\ thr = IdleThreads
    /\ lock = 0
    /\ sel_loads = << >>
    /\ sel_out = NULL
    /\ awaiting_report_range = FALSE
    /\ config_fields = WithEmployeeCodes

store_create_call ==
    /\ Len(calls) < MaxRows
    /\ \E uid \in Users :
         /\ calls' = create_call(calls, uid, NULL)
         /\ last' = Step("create_call", lastrowid(calls'), NULL)
    /\ StoreFrame

store_mark_status ==
    /\ \E id \in DOMAIN calls, st \in Statuses :
         /\ calls' = mark_status(calls, id, st)
         /\ last' = Step("mark_status", id, st)
    /\ StoreFrame

store_assign_engineer ==
    /\ \E id \in DOMAIN calls, name \in {"A", "B"} :
         /\ calls' = assign_engineer(calls, id, name)
         /\ last' = StepOn("assign_engineer", id, NULL, name, calls[id].assigned_engineer)
    /\ StoreFrame

StoreNext ==
    \/ store_create_call
    \/ store_mark_status
    \/ store_assign_engineer

StoreSpec == StoreInit /\ [][StoreNext]_vars

\* ------------------------------------------------------------- store mutations
\* Every UPDATE of database.py 185-229 called with any id, of a stored ticket
\* or of none, beside create_call.
AnyIds == 0..(MaxCalls + 1)
StoredNames == {"A", ""}

mutation_create_call ==
    /\ Len(calls) < MaxCalls
    /\ \E uid \in Users :
         /\ calls' = create_call(calls, uid, NULL)
         /\ last' = Step("create_call", lastrowid(calls'), NULL)
    /\ StoreFrame

mutation_update_issue_description ==
    /\ \E id \in AnyIds, d \in Descriptions :
         /\ calls' = update_issue_description(calls, id, d)
         /\ last' = Step("update_issue_description", id, NULL)
    /\ StoreFrame

mutation_update_ai_guidance ==
    /\ \E id \in AnyIds, g \in {"guide"} :
         /\ calls' = update_ai_guidance(calls, id, g)
         /\ last' = Step("update_ai_guidance", id, NULL)
    /\ StoreFrame

mutation_mark_status ==
    /\ \E id \in AnyIds, st \in {"awaiting_manager", "resolved_with_ai"} :
         /\ calls' = mark_status(calls, id, st)
         /\ last' = Step("mark_status", id, NULL)
    /\ StoreFrame

mutation_assign_engineer ==
    /\ \E id \in AnyIds, name \in StoredNames :
         /\ calls' = assign_engineer(calls, id, name)
         /\ last' = Step("assign_engineer", id, NULL)
    /\ StoreFrame

mutation_assign_engineer_if_unassigned ==
    /\ \E id \in AnyIds, name \in {"B"} :
         LET r == assign_engineer_if_unassigned(calls, id, name) IN
         /\ calls' = r.db
         /\ last' = Step("assign_engineer_if_unassigned", id,
                         IF r.ok THEN "true" ELSE "false")
    /\ StoreFrame

MutationNext ==
    \/ mutation_create_call
    \/ mutation_update_issue_description
    \/ mutation_update_ai_guidance
    \/ mutation_mark_status
    \/ mutation_assign_engineer
    \/ mutation_assign_engineer_if_unassigned

MutationSpec == StoreInit /\ [][MutationNext]_vars

\* ------------------------------------------------------------- report aggregates
\* summary_between over rows of the calls table with the columns it reads. A
\* timestamp is a day and an hour; DATE(created_at) and datetime.date() keep
\* the day.
Stamp(d, h) == [day |-> d, hour |-> h]
CreatedAts == {Stamp(1, 23), Stamp(2, 0), Stamp(3, 12)}
RangeBounds == {Stamp(1, 9), Stamp(2, 12), Stamp(3, 0)}
SummaryRows ==
    [created_at : CreatedAts, department : {"IT", "HR"},
     issue_type : {"network", "printer"},
     status : {"basic_guidance_provided", "escalated_to_engineer"}]

date(stamp) == stamp.day

\* SELECT col, COUNT(*) ... GROUP BY col over the selected rows
group_count(db, rows, col) ==
    {<<k, Cardinality({i \in rows : db[i][col] = k})>> : k \in {db[i][col] : i \in rows}}

\* variant: BETWEEN with the end date left out
summary_between_open_end(db, start_date, end_date) ==
    LET rows == {i \in DOMAIN db : /\ date(start_date) <= date(db[i].created_at)
                                    /\ date(db[i].created_at) < date(end_date)}
    IN [total |-> Cardinality(rows),
        by_department |-> group_count(db, rows, "department"),
        by_issue |-> group_count(db, rows, "issue_type"),
        statuses |-> group_count(db, rows, "status")]

summary_between(db, start_date, end_date) ==
    LET rows == {i \in DOMAIN db : /\ date(start_date) <= date(db[i].created_at)
                                    /\ date(db[i].created_at) <= date(end_date)}
    IN [total |-> Cardinality(rows),
        by_department |-> group_count(db, rows, "department"),
        by_issue |-> group_count(db, rows, "issue_type"),
        statuses |-> group_count(db, rows, "status")]

SummaryInit ==
    /\ \E n \in 0..MaxRows : calls \in [1..n -> SummaryRows]
    /\ employee_codes = {}
    /\ engineers = <<"A", "B">>
    /\ conv_state = [u \in Users |-> "END"]
    /\ user_data = [u \in Users |-> EmptyData]
    /\ ai_wait = [u \in Users |-> FALSE]
    /\ jobs = [c \in CallIds |-> 0]
    /\ sent = {}
    /\ last = [op |-> "none", start_date |-> Stamp(0, 0), end_date |-> Stamp(0, 0),
               result |-> summary_between(<< >>, Stamp(0, 0), Stamp(0, 0))]
    /\ seen = [c \in CallIds |-> {}]
    /\ thr = IdleThreads
    /\ lock = 0
    /\ sel_loads = << >>
    /\ sel_out = NULL
    /\ awaiting_report_range = FALSE
    /\ config_fields = WithEmployeeCodes

summarise ==
    /\ \E start_date \in RangeBounds, end_date \in RangeBounds :
         last' = [op |-> "summary_between", start_date |-> start_date,
                  end_date |-> end_date,
                  result |-> summary_between(calls, start_date, end_date)]
    /\ UNCHANGED calls
    /\ StoreFrame

SummarySpec == SummaryInit /\ [][summarise]_vars

\* ============================================================= properties

\* C1: when the auto-assign job fires for a ticket whose assigned_engineer is already
\* non-empty, no field of any ticket changes and no notification is sent, neither to
\* the manager nor to an engineer.
C1_TimerNoOpWhenAssigned ==
    [][\A c \in CallIds :
          (last'.op = "auto_assign_job" /\ last'.call = c /\ is_call_assigned(calls, c))
          => (calls' = calls /\ sent' = {})]_vars

\* the job has fired on a ticket that held an engineer
C1_FiredOnAssigned ==
    /\ last.op = "auto_assign_job"
    /\ last.out = "already_assigned"
    /\ is_call_assigned(calls, last.call)

\* C2 as stated: a ticket gets at most one store write that sets assigned_engineer
\* (assign_engineer, or assign_engineer_if_unassigned returning true).  The column is
\* empty until the first such write and never emptied, so a second write is a write
\* on a ticket that already has an engineer: no such write happens.
C2_AtMostOneAssignmentWrite ==
    [][\A c \in CallIds :
          (/\ last'.call = c
           /\ \/ last'.op = "assign_call" /\ last'.out \in {"assigned", "assigned_job_removed"}
              \/ last'.op = "auto_assign_job" /\ last'.out \in {"assigned", "assigned_raised"})
          => ~is_call_assigned(calls, c)]_vars

\* C2 amended: assigned_engineer of a ticket goes from empty to non-empty at most once
\* (once set it is never emptied), and the auto-assign job writes it only on a ticket
\* that has none, so at most once per ticket and never after another assignment.
C2_AutoAssignsOnlyUnassigned ==
    [][\A c \in DOMAIN calls :
          /\ is_call_assigned(calls, c) => is_call_assigned(calls', c)
          /\ (last'.op = "auto_assign_job" /\ last'.call = c
                /\ last'.out \in {"assigned", "assigned_raised"})
             => (~is_call_assigned(calls, c) /\ calls'[c].assigned_engineer = last'.eng)]_vars

\* the job has assigned a ticket
C2_AutoAssigned ==
    /\ last.op = "auto_assign_job"
    /\ last.out \in {"assigned", "assigned_raised"}
    /\ calls[last.call].assigned_engineer = last.eng

\* C3: when every one of the concurrent assign_engineer_if_unassigned calls on the
\* unassigned ticket has returned, exactly one returned true, and the ticket holds the
\* name that call passed and the status escalated_to_engineer.
C3_ExactlyOneCallWins ==
    (\A t \in Threads : thr[t].pc = "done")
    => \E w \in Threads :
         /\ thr[w].ret
         /\ \A t \in Threads \ {w} : ~thr[t].ret
         /\ calls[RaceCall].assigned_engineer = ThreadNames[w]
         /\ calls[RaceCall].status = "escalated_to_engineer"

\* every call has returned and the winner is not the first thread
C3_AllReturned ==
    /\ \A t \in Threads : thr[t].pc = "done"
    /\ thr[2].ret
    /\ calls[RaceCall].assigned_engineer = ThreadNames[2]

\* C4 as stated: a manager's manual assign of an existing ticket, in any status, to a
\* roster engineer ends with that engineer assigned and status escalated_to_engineer.
C4_ManualAssignAnyStatus ==
    [][\A c \in CallIds :
          (last'.op = "assign_call" /\ last'.call = c)
          => /\ calls'[c].assigned_engineer = last'.eng
             /\ calls'[c].status = "escalated_to_engineer"]_vars

\* C4 amended: a manager's manual assign of an existing ticket to a roster engineer
\* ends with that engineer assigned and status escalated_to_engineer whenever the
\* ticket is not resolved_with_basic or resolved_with_ai, whatever engineer it held
\* before; on a resolved ticket it changes nothing.
C4_ManualAssignUnresolved ==
    [][\A c \in CallIds :
          (last'.op = "assign_call" /\ last'.call = c)
          => IF calls[c].status \in RESOLVED
             THEN calls' = calls /\ jobs' = jobs
             ELSE /\ calls'[c].assigned_engineer = last'.eng
                  /\ calls'[c].status = "escalated_to_engineer"]_vars

\* a manual assign has replaced another engineer
C4_Reassigned ==
    /\ last.op = "assign_call"
    /\ last.out \in {"assigned", "assigned_job_removed"}
    /\ last.prev \notin {NULL, last.eng}
    /\ calls[last.call].assigned_engineer = last.eng

\* C5: right after a successful manual assign of a ticket no job of that ticket is
\* pending and the assignment is written, whether a job was pending before or not;
\* the jobs of other tickets are left alone.
C5_ManualAssignRemovesJobs ==
    [][\A c \in CallIds :
          (last'.op = "assign_call" /\ last'.call = c /\ calls[c].status \notin RESOLVED)
          => /\ jobs'[c] = 0
             /\ \A d \in CallIds \ {c} : jobs'[d] = jobs[d]
             /\ calls'[c].assigned_engineer = last'.eng]_vars

\* a manual assign has removed a pending job
C5_PendingJobRemoved ==
    /\ last.op = "assign_call"
    /\ last.out = "assigned_job_removed"
    /\ jobs[last.call] = 0

\* C6: the engineer selected has the smallest load of the roster and every engineer
\* before it in roster order has a strictly larger load; loads {A:2, B:0, C:1} select
\* B and loads {A:1, B:1} select A.
C6_LowestLoadFirstInRoster ==
    sel_out # NULL =>
      /\ \E k \in DOMAIN engineers :
           /\ engineers[k] = sel_out
           /\ \A j \in DOMAIN engineers :
                /\ sel_loads[engineers[k]] <= sel_loads[engineers[j]]
                /\ j < k => sel_loads[engineers[j]] > sel_loads[engineers[k]]
      /\ (engineers = <<"A", "B", "C">> /\ sel_loads = ("A" :> 2 @@ "B" :> 0 @@ "C" :> 1))
            => sel_out = "B"
      /\ (engineers = <<"A", "B">> /\ sel_loads = ("A" :> 1 @@ "B" :> 1))
            => sel_out = "A"

\* a selection among engineers of equal load
C6_TieSelected ==
    /\ engineers = <<"A", "B", "C">>
    /\ sel_loads = ("A" :> 2 @@ "B" :> 1 @@ "C" :> 1)
    /\ sel_out = "B"

\* C7: the stored status of a ticket never moves backward in the order
\* basic_guidance_provided < awaiting_ai_guidance < (ai_guidance_provided |
\* ai_guidance_failed) < awaiting_manager < escalated_to_engineer.
C7_StatusNeverBackward ==
    [][LET rank(st) == CASE st = "basic_guidance_provided" -> 1
                         [] st = "awaiting_ai_guidance" -> 2
                         [] st = "ai_guidance_provided" -> 3
                         [] st = "ai_guidance_failed" -> 3
                         [] st = "awaiting_manager" -> 4
                         [] st = "escalated_to_engineer" -> 5
                         [] OTHER -> 0
       IN \A c \in DOMAIN calls :
            (calls[c].status \notin RESOLVED /\ calls'[c].status \notin RESOLVED)
            => rank(calls[c].status) <= rank(calls'[c].status)]_vars

\* C8: a ticket whose status is escalated_to_engineer had the status awaiting_manager
\* at some earlier point.
C8_EscalatedAfterAwaitingManager ==
    \A c \in DOMAIN calls :
        calls[c].status = "escalated_to_engineer" => "awaiting_manager" \in seen[c]

\* C9: a ticket that is escalated (awaiting_manager, no engineer) while the roster is
\* non-empty eventually has an engineer and the status escalated_to_engineer, given
\* that every armed job eventually fires.
C9_EscalatedEventuallyAssigned ==
    \A c \in CallIds :
        [](  (/\ c \in DOMAIN calls
              /\ calls[c].status = "awaiting_manager"
              /\ ~is_call_assigned(calls, c)
              /\ engineers # << >>)
           => <>(/\ is_call_assigned(calls, c)
                 /\ calls[c].status = "escalated_to_engineer"))

\* C10: when the guidance generator fails during request_details, the ticket does not
\* get the status ai_guidance_provided, no guidance text is stored, the manager is
\* told of the failure and the reporter's session ends.
C10_GeneratorFailureBranch ==
    [][\A c \in CallIds :
          (last'.op = "request_details_resume" /\ last'.call = c
             /\ last'.out = "generator_failed")
          => /\ calls'[c].status # "ai_guidance_provided"
             /\ calls'[c].ai_guidance = calls[c].ai_guidance
             /\ Msg(Manager, "ai_failure", c) \in sent'
             /\ conv_state'[calls[c].telegram_user_id] = "END"]_vars

C12_NonManagerChangesNothing ==
    [][(/\ last'.op \in {"report", "assign_call", "add_employee"}
        /\ last'.by \notin {Manager, NULL})
       => /\ calls' = calls
          /\ employee_codes' = employee_codes
          /\ jobs' = jobs]_vars

\* a staff command from another chat was refused while a staff record, a ticket and
\* a pending job existed
C12_StaffCommandDenied ==
    /\ last.op = "add_employee"
    /\ last.by = "u1"
    /\ last.out = "denied"
    /\ employee_codes # {}
    /\ \E c \in DOMAIN calls : jobs[c] > 0

\* C13: a manager's assign command that names an unknown ticket id or an engineer
\* that is not in the roster changes no ticket (assigned_engineer and status stay),
\* removes no pending job and notifies nobody.
C13_UnknownTargetRejected ==
    [][(/\ last'.op = "assign_call"
        /\ last'.by = Manager
        /\ last'.out \in {"unknown_engineer", "unknown_call"})
       => /\ calls' = calls
          /\ jobs' = jobs
          /\ sent' = {}]_vars

\* the manager named an engineer that is not in the roster while a job was pending
C13_UnknownEngineerRejected ==
    /\ last.op = "assign_call"
    /\ last.by = Manager
    /\ last.out = "unknown_engineer"
    /\ \E c \in DOMAIN calls : jobs[c] > 0 /\ ~is_call_assigned(calls, c)

\* C14: no step removes a ticket, and no step of any actor (reporter flow, job,
\* manager command) changes the status, the assigned engineer, the description or
\* the AI guidance of a ticket whose status is resolved_with_basic or
\* resolved_with_ai.
C14_ResolvedTicketImmutable ==
    [][\A c \in DOMAIN calls :
         /\ c \in DOMAIN calls'
         /\ calls[c].status \in RESOLVED
            => /\ calls'[c].status = calls[c].status
               /\ calls'[c].assigned_engineer = calls[c].assigned_engineer
               /\ calls'[c].issue_description = calls[c].issue_description
               /\ calls'[c].ai_guidance = calls[c].ai_guidance]_vars

\* the manager named a resolved ticket and an engineer of the roster
C14_AssignOnResolved ==
    /\ last.op = "assign_call"
    /\ last.out = "closed"
    /\ last.call \in DOMAIN calls
    /\ calls[last.call].status \in RESOLVED
    /\ last.eng \in Names(engineers)

\* C15: a ticket's assigned_engineer is empty from its creation until an assignment;
\* once it is non-empty, the only step that changes any field of the ticket is the
\* manager's assign command, and assigned_engineer is non-empty ever after.
C15_AssignedTicketOnlyReassigned ==
    [][/\ \A c \in DOMAIN calls' \ DOMAIN calls : calls'[c].assigned_engineer \in {NULL, ""}
       /\ \A c \in DOMAIN calls :
            is_call_assigned(calls, c)
            => /\ is_call_assigned(calls', c)
               /\ ([calls'[c] EXCEPT !.created_today = TRUE]
                     # [calls[c] EXCEPT !.created_today = TRUE]
                   => last'.op = "assign_call" /\ last'.by = Manager)]_vars

\* C16: the reporter's cancel is accepted in every conversation state (whenever a
\* session is open and no handler is suspended), ends the session, and leaves every
\* ticket and every pending job as it was.
C16_CancelEndsSession ==
    /\ [](\A u \in Users : (conv_state[u] # "END" /\ Idle) => ENABLED cancel(u))
    /\ [][last'.op = "cancel"
          => /\ \A u \in Users : conv_state'[u] = "END"
             /\ calls' = calls
             /\ jobs' = jobs]_vars

\* a session was cancelled while a stored ticket had its job pending
C16_CancelledBesidePendingJob ==
    /\ last.op = "cancel"
    /\ \A u \in Users : conv_state[u] = "END"
    /\ \E c \in DOMAIN calls : jobs[c] > 0

\* C17: a text that is not a catalog label in CHOOSE_ISSUE (the label in another
\* case, or any other text; the handlers trim the text before they compare it), and
\* a text that is neither a yes nor a no response in BASIC_FOLLOWUP or AI_FOLLOWUP, leave the conversation state as it was and change
\* nothing in the store: no ticket is created, no ticket field, job or staff record is
\* modified.
C17_MalformedInputReprompts ==
    [][(\/ last'.op = "choose_issue" /\ last'.text \in {"Network", "junk"}
        \/ /\ last'.op \in {"handle_basic_followup", "handle_ai_followup"}
           /\ last'.text \in {"junk"})
       => /\ conv_state' = conv_state
          /\ calls' = calls
          /\ jobs' = jobs
          /\ employee_codes' = employee_codes]_vars

\* the reporter typed a label in the wrong case and is asked again
C17_WrongCaseLabelReprompted ==
    /\ last.op = "choose_issue"
    /\ last.text = "Network"
    /\ last.out = "reprompt"
    /\ \E u \in Users : conv_state[u] = "CHOOSE_ISSUE"
    /\ calls = << >>

\* C18: in a session that asks for a staff code a code is processed only as the
\* first, second or third entry; an invalid first or second code keeps the session in
\* ASK_EMPLOYEE_CODE, the third invalid code in a row ends the session, a valid code
\* is accepted on any of the three entries, and no ticket is created by a session
\* whose third code was invalid.
C18_ThreeCodeAttempts ==
    [][\A u \in Users :
        LET before == user_data[u].employee_code_attempts
            valid == \E r \in employee_codes : r.code = last'.text
        IN /\ last'.op = "receive_employee_code"
              => /\ conv_state[u] = "ASK_EMPLOYEE_CODE"
                 /\ before < MaxAttempts
                 /\ calls' = calls
                 /\ IF valid
                    THEN /\ conv_state'[u] \in {"ASK_NAME", "ASK_DEPARTMENT", "CHOOSE_ISSUE"}
                         /\ user_data'[u].employee_code = last'.text
                    ELSE /\ user_data'[u].employee_code_attempts = before + 1
                         /\ conv_state'[u] = IF before + 1 < MaxAttempts
                                             THEN "ASK_EMPLOYEE_CODE" ELSE "END"
           /\ Len(calls') > Len(calls) => before < MaxAttempts]_vars

\* the third invalid code in a row ended the session
C18_LockedOutAfterThird ==
    /\ last.op = "receive_employee_code"
    /\ last.out = "locked_out"
    /\ last.text = "bad"
    /\ \A u \in Users : conv_state[u] = "END" /\ user_data[u].employee_code_attempts = 3

C20_AssignNotifiesEngineerAndReporter ==
    (last.op = "assign_call" /\ last.out \in {"assigned", "assigned_job_removed"})
    => /\ \A m \in sent : m.kind = "engineer_notice" => m.to = last.eng
       /\ \E m \in sent : m.to = calls[last.call].telegram_user_id /\ m.call = last.call

\* C21: in a manual assign and in an automatic one that did not end on a failed send
\* to the manager, an engineer notice that is not delivered leaves the assignment in
\* the store (assigned_engineer is the engineer chosen, status escalated_to_engineer)
\* and the manager is still sent the message about the assignment.
C21_EngineerNoticeFailureIsolated ==
    [][(/\ last'.op \in {"assign_call", "auto_assign_job"}
        /\ last'.out \in {"assigned", "assigned_job_removed"}
        /\ ~\E m \in sent' : m.kind = "engineer_notice")
       => /\ calls'[last'.call].assigned_engineer = last'.eng
          /\ calls'[last'.call].status = "escalated_to_engineer"
          /\ \E m \in sent' : m.to = Manager /\ m.call = last'.call]_vars

\* the job assigned a ticket, the manager was told, the engineer was not reached
C21_AutoAssignedEngineerUnreachable ==
    /\ last.op = "auto_assign_job"
    /\ last.out = "assigned"
    /\ sent = {Msg(Manager, "auto_assigned", last.call)}
    /\ calls[last.call].assigned_engineer = last.eng
    /\ last.eng \in Names(engineers)

\* C22: when, with a non-empty roster, the message of an escalation does not reach
\* the manager, the ticket's status is awaiting_manager all the same and the job of
\* the ticket is armed by that step.
C22_ManagerNoticeFailureStillArms ==
    [][(/\ last'.op \in {"request_details_resume", "handle_ai_followup"}
        /\ last'.out = "escalate_raised"
        /\ engineers # << >>)
       => /\ calls'[last'.call].status = "awaiting_manager"
          /\ jobs'[last'.call] = jobs[last'.call] + 1]_vars

\* C23: an assign command of the manager is handled by assign_call, whether or not a
\* report range is awaited, and when it names a ticket that is not resolved and an
\* engineer of the roster the ticket has that engineer afterwards.
C23_ManagerAssignDispatched ==
    [][(last'.by = Manager /\ (last'.text = "/assign_call" \/ last'.op = "assign_call"))
       => /\ last'.op = "assign_call"
          /\ last'.out \in {"assigned", "assigned_job_removed"}
             => calls'[last'.call].assigned_engineer = last'.eng]_vars

\* C24: the escalation of a ticket runs at most once: a step that escalates a ticket
\* finds that the ticket never had the status awaiting_manager before, and at no time
\* are two jobs pending for the same ticket.
C24_EscalationOnce ==
    /\ [][(/\ last'.op \in {"request_details_resume", "handle_ai_followup"}
           /\ last'.out \in {"escalated", "escalate_raised"})
          => "awaiting_manager" \notin seen[last'.call]]_vars
    /\ [](\A c \in CallIds : jobs[c] <= 1)

\* C25: the id create_call returns is the id of no ticket created before, over any
\* sequence of writes: it is not in the table before the insert, it is the id of the
\* new row, and every row that was in the table is still there under its id.
C25_IdsUniqueNeverReused ==
    [][/\ DOMAIN calls \subseteq DOMAIN calls'
       /\ last'.op = "create_call"
          => /\ last'.call \notin DOMAIN calls
             /\ last'.call \in DOMAIN calls'
             /\ DOMAIN calls' = DOMAIN calls \cup {last'.call}
             /\ \A c \in DOMAIN calls : calls'[c] = calls[c]]_vars

\* a second ticket was created after writes to the first
C25_SecondTicketCreated ==
    /\ last.op = "create_call"
    /\ last.call = 2
    /\ Len(calls) = 2
    /\ calls[1].status # "basic_guidance_provided"

\* C26: the load of every engineer of the roster is the number of tickets that have
\* the engineer's name as assigned_engineer and were created on the current date; and
\* when the job assigns a ticket created today, the load of the engineer it chose is
\* one higher afterwards and the load of every other engineer is the same.
C26_LoadsDerived ==
    /\ [](\A n \in Names(engineers) :
            engineer_loads(calls, Names(engineers))[n]
              = Cardinality({c \in DOMAIN calls :
                    calls[c].assigned_engineer = n /\ calls[c].created_today}))
    /\ [][(/\ last'.op = "auto_assign_job"
           /\ last'.out \in {"assigned", "assigned_raised"}
           /\ calls[last'.call].created_today)
          => LET before == engineer_loads(calls, Names(engineers))
                 after == engineer_loads(calls', Names(engineers))
             IN \A n \in Names(engineers) :
                  after[n] = IF n = last'.eng THEN before[n] + 1 ELSE before[n]]_vars

\* the job assigned a ticket created today; the engineer's load is now 1
C26_AutoAssignRaisedLoad ==
    /\ last.op = "auto_assign_job"
    /\ last.out = "assigned"
    /\ calls[last.call].created_today
    /\ calls[last.call].assigned_engineer = last.eng
    /\ engineer_loads(calls, Names(engineers))[last.eng] = 1

\* C27: while the staff table is not empty a ticket is created only in a session
\* whose reporter has entered a code of the table, and the new ticket has that code
\* as its employee_code.
C27_AllowListGatesIntake ==
    [][(Len(calls') > Len(calls) /\ employee_codes # {})
       => \E u \in Users :
            /\ \E r \in employee_codes : r.code = user_data[u].employee_code
            /\ calls'[Len(calls')].employee_code = user_data[u].employee_code
            /\ calls'[Len(calls')].telegram_user_id = u]_vars

\* a ticket was created after the reporter entered a code of the staff table
C27_TicketRecordsCode ==
    /\ last.op = "choose_issue"
    /\ last.out = "created"
    /\ calls[last.call].employee_code = "E1"
    /\ \E r \in employee_codes : r.code = "E1"

\* C28: a /start within working hours always enters identity capture and never
\* fails on reading the configuration: the handler completes, the reporter's
\* session data is fresh, and the session is in the staff-code state (attempt
\* counter 0) when the staff table is non-empty, in the name state otherwise.
\* Refuted with BotConfig as declared: the read of employee_codes raises.
C28_StartEntersIdentityCapture ==
    [][(last'.op = "start" /\ last'.out # "closed" /\ last' # last)
       => /\ last'.out = "started"
          /\ \E u \in Users :
               /\ user_data'[u] = EmptyData
               /\ user_data'[u].employee_code_attempts = 0
               /\ conv_state'[u] = IF employee_codes # {}
                                   THEN "ASK_EMPLOYEE_CODE" ELSE "ASK_NAME"]_vars

\* C29: in BASIC_FOLLOWUP a yes answer sets the session's ticket to
\* resolved_with_basic and ends the session; a no answer leaves the ticket
\* table exactly as it was and moves the session to REQUEST_DETAILS.
C29_BasicFollowupYesNo ==
    [][\A u \in Users :
         (/\ conv_state[u] = "BASIC_FOLLOWUP"
          /\ last'.op = "handle_basic_followup" /\ last' # last)
         => LET c == user_data[u].call_id IN
            /\ last'.text \in {"yes", " YES "}
                 => /\ calls'[c].status = "resolved_with_basic"
                    /\ conv_state'[u] = "END"
            /\ last'.text = "no"
                 => /\ calls'[c].status = calls[c].status
                    /\ calls' = calls
                    /\ conv_state'[u] = "REQUEST_DETAILS"]_vars

\* a reporter declined the basic guidance and the ticket kept its status
C29_DeclinedBasicGuidance ==
    /\ last.op = "handle_basic_followup"
    /\ last.text = "no"
    /\ calls[last.call].status = "basic_guidance_provided"
    /\ \E u \in Users : /\ user_data[u].call_id = last.call
                         /\ conv_state[u] = "REQUEST_DETAILS"

\* C30: in REQUEST_DETAILS the writes to the session's ticket come in this
\* order: the description is stored and the status set to awaiting_ai_guidance
\* before the generator is invoked; when the generator returns, its text is
\* stored together with status ai_guidance_provided and the session is in
\* AI_FOLLOWUP; and a ticket's description and its guidance are each written at
\* most once, that is, only onto a ticket that holds none yet.
\* Refuted: after a manager notice raised, the session is still in
\* REQUEST_DETAILS and the next text overwrites the description.
C30_DetailsWrittenInOrderOnce ==
    [][\A u \in Users :
         LET c == user_data[u].call_id IN
         /\ (conv_state[u] = "REQUEST_DETAILS" /\ ~ai_wait[u] /\ ai_wait'[u])
              => /\ calls[c].issue_description = NULL
                 /\ calls'[c].issue_description \in Descriptions
                 /\ calls'[c].status = "awaiting_ai_guidance"
                 /\ calls'[c].ai_guidance = calls[c].ai_guidance
         /\ (ai_wait[u] /\ ~ai_wait'[u]
              /\ last'.out \in {"guidance", "generator_failed"})
              => /\ calls[c].ai_guidance = NULL
                 /\ calls[c].issue_description \in Descriptions
                 /\ calls'[c].ai_guidance \in {"guide", "warning"}
                 /\ calls'[c].status = "ai_guidance_provided"
                 /\ calls'[c].issue_description = calls[c].issue_description
                 /\ conv_state'[u] = "AI_FOLLOWUP"]_vars

\* C31: in AI_FOLLOWUP a yes answer sets the session's ticket to
\* resolved_with_ai and ends the session without arming a timer; a no answer
\* escalates (status awaiting_manager, one more timer for the ticket when the
\* roster is non-empty) and ends the session.
\* Refuted: when the notice to the manager raises, no timer is armed and the
\* session stays in AI_FOLLOWUP.
C31_AiFollowupYesNo ==
    [][\A u \in Users :
         (/\ conv_state[u] = "AI_FOLLOWUP"
          /\ last'.op = "handle_ai_followup" /\ last' # last)
         => LET c == user_data[u].call_id IN
            /\ last'.text \in {"yes", " YES "}
                 => /\ calls'[c].status = "resolved_with_ai"
                    /\ conv_state'[u] = "END"
                    /\ jobs' = jobs
            /\ last'.text = "no"
                 => /\ calls'[c].status = "awaiting_manager"
                    /\ conv_state'[u] = "END"
                    /\ engineers # << >> => jobs'[c] = jobs[c] + 1
                    /\ engineers = << >> => jobs' = jobs]_vars

\* C32: in the auto-assign and the manual-assign path the load computed for
\* the selected engineer does not count the ticket being assigned, also when a
\* manual assign gives a ticket to the engineer who already holds it; the load
\* in the assignment summary is the number of the engineer's other tickets of
\* today plus one.
\* Refuted: on such a re-assignment the count already includes the ticket.
C32_LoadExcludesAssignedTicket ==
    [][(/\ last'.op \in {"assign_call", "auto_assign_job"}
        /\ last'.load > 0
        /\ last' # last)
       => LET c == last'.call
              others == {i \in DOMAIN calls \ {c} :
                           /\ calls[i].assigned_engineer = last'.eng
                           /\ calls[i].created_today}
          IN last'.load = Cardinality(others) + 1]_vars

\* C33: update_issue_description, update_ai_guidance, mark_status and
\* assign_engineer called with an id no ticket has change no ticket and create
\* none; assign_engineer_if_unassigned called with such an id, or with the id of
\* a ticket whose assigned_engineer is non-empty, returns false and leaves every
\* ticket as it was.
C33_AbsentTargetNoOp ==
    [][/\ (/\ last'.op \in {"update_issue_description", "update_ai_guidance",
                            "mark_status", "assign_engineer",
                            "assign_engineer_if_unassigned"}
           /\ last'.call \notin DOMAIN calls)
          => calls' = calls
       /\ (/\ last'.op = "assign_engineer_if_unassigned"
           /\ \/ last'.call \notin DOMAIN calls
              \/ calls[last'.call].assigned_engineer \notin {NULL, ""})
          => /\ last'.out = "false"
             /\ calls' = calls]_vars

\* the conditional assignment was refused for a ticket that holds an engineer
C33_RefusedOnAssignedTicket ==
    /\ last.op = "assign_engineer_if_unassigned"
    /\ last.out = "false"
    /\ last.call \in DOMAIN calls
    /\ calls[last.call].assigned_engineer = "A"

\* C34: while the manager is prompted for a date range, a malformed text or a
\* range whose start is after its end produces no report and leaves the prompt
\* pending, and a well-formed range that is not inverted produces the report
\* for exactly its start and its end and clears the prompt.
C34_RangePromptHandling ==
    [][(/\ awaiting_report_range
        /\ last'.op = "receive_report_range"
        /\ last'.by = Manager)
       => /\ last'.text \in {"hello", "2024-05-01 - soon", "2024-05-31 - 2024-05-01"}
             => /\ sent' = {}
                /\ awaiting_report_range'
          /\ last'.text = "2024-05-01 - 2024-05-31"
             => /\ sent' = {SummaryMsg(Manager, 1, 31)}
                /\ ~awaiting_report_range']_vars

\* the manager answered the prompt with an inverted range and is still prompted
C34_InvertedRangeReprompted ==
    /\ last.op = "receive_report_range"
    /\ last.by = Manager
    /\ last.text = "2024-05-31 - 2024-05-01"
    /\ last.out = "bad_range"
    /\ awaiting_report_range

\* C35: summary_between(start, end) counts exactly the tickets whose creation
\* date d has start <= d <= end: total is their number; the counts by
\* department, by issue and by status name exactly the values found among those
\* tickets, give each the number of those tickets with that value, and sum to
\* total; a range that holds no ticket's creation date gives total 0 and empty
\* groupings.
C35_SummaryCountsRange ==
    last.op = "summary_between" =>
      LET S == {i \in DOMAIN calls :
                  /\ last.start_date.day <= calls[i].created_at.day
                  /\ calls[i].created_at.day <= last.end_date.day}
          r == last.result
          Exact(groups, col) ==
              /\ {g[1] : g \in groups} = {calls[i][col] : i \in S}
              /\ \A g \in groups :
                    g[2] = Cardinality({i \in S : calls[i][col] = g[1]})
              /\ Cardinality(UNION {{<<g[1], j>> : j \in 1..g[2]} : g \in groups})
                    = r.total
      IN /\ r.total = Cardinality(S)
         /\ Exact(r.by_department, "department")
         /\ Exact(r.by_issue, "issue_type")
         /\ Exact(r.statuses, "status")
         /\ S = {} => /\ r.total = 0
                      /\ r.by_department = {} /\ r.by_issue = {} /\ r.statuses = {}

\* a report over a range that holds the creation date of one of two tickets, the
\* ticket created on the range's last day after the hour of the end bound
C35_OneOfTwoInRange ==
    /\ last.op = "summary_between"
    /\ Len(calls) = 2
    /\ last.result.total = 1
    /\ last.end_date = Stamp(3, 0)
    /\ \E i \in DOMAIN calls : calls[i].created_at = Stamp(3, 12)

\* C36: whenever a job is pending for a ticket, the ticket exists, its status
\* is awaiting_manager and it holds no engineer.
\* Refuted: a ticket the manager assigned while its session was open is
\* escalated by that session afterwards, and the job is armed for it.
C36_PendingJobOnUnassignedAwaiting ==
    \A c \in CallIds :
        jobs[c] > 0 => /\ c \in DOMAIN calls
                       /\ calls[c].status = "awaiting_manager"
                       /\ calls[c].assigned_engineer \in {NULL, ""}

\* C37: in every reachable state a ticket with status escalated_to_engineer
\* holds an engineer, and the engineer a ticket holds is a name of the roster in
\* the roster's spelling, whatever spelling the command gave.
C37_AssignedNameCanonical ==
    \A c \in DOMAIN calls :
        /\ calls[c].status = "escalated_to_engineer"
             => calls[c].assigned_engineer \notin {NULL, ""}
        /\ calls[c].assigned_engineer \notin {NULL, ""}
             => calls[c].assigned_engineer \in Names(engineers)

\* the manager's command named b and the ticket holds B
C37_TypedLowerStoredCanonical ==
    /\ last.op = "assign_call"
    /\ last.eng = "B"
    /\ "B" \notin RosterSpellings
    /\ calls[last.call].assigned_engineer = "B"
    /\ calls[last.call].status = "escalated_to_engineer"

\* C38: the job assigns an engineer only to a ticket whose status at that
\* moment is awaiting_manager (and which holds no engineer): never to a
\* resolved ticket or to one still in a guidance stage.
C38_JobAssignsOnlyAwaiting ==
    [][(/\ last'.op = "auto_assign_job"
        /\ last'.out \in {"assigned", "assigned_raised"})
       => /\ calls[last'.call].status = "awaiting_manager"
          /\ calls[last'.call].assigned_engineer \in {NULL, ""}
          /\ calls'[last'.call].assigned_engineer = last'.eng]_vars

\* the job assigned a ticket that had been escalated and held no engineer
C38_JobAssignedEscalatedTicket ==
    /\ last.op = "auto_assign_job"
    /\ last.out = "assigned"
    /\ last.prev = NULL
    /\ "awaiting_manager" \in seen[last.call]
    /\ calls[last.call].status = "escalated_to_engineer"
    /\ calls[last.call].assigned_engineer = last.eng

====
